---- MODULE Spec2Model ----
(***************************************************************************)
(* Model of the order-book component of the FST trading platform           *)
(* (src/ui/web/static/js/components/orderbook.js): the data held by one    *)
(* OrderBook instance and the handlers that change it.                     *)
(*                                                                         *)
(* JavaScript numbers are modelled by integers plus the value NaN; the     *)
(* quotient computed for spreadPercent is modelled by a reduced fraction   *)
(* <<n, d>>, where d = 0 encodes the results of a division by zero         *)
(* (<<1,0>> = Infinity, <<-1,0>> = -Infinity, <<0,0>> = NaN).              *)
(***************************************************************************)
EXTENDS Integers, Sequences, FiniteSets

VARIABLES bids, asks, lastUpdateId, spreadValue, spreadPercent,
          totalBidVolume, totalAskVolume, maxRows, call, calls,
          lastPriceElement, trades, lastPrice, priceCell, consumer, depth,
          selectedSymbol, orderBook, requests, activeOrders, orderHistory,
          clickListeners, resizeListeners, depthChart, echarts, container,
          rendered, invoked

vars == <<bids, asks, lastUpdateId, spreadValue, spreadPercent,
          totalBidVolume, totalAskVolume, maxRows, call, calls,
          lastPriceElement, trades, lastPrice, priceCell, consumer, depth,
          selectedSymbol, orderBook, requests, activeOrders, orderHistory,
          clickListeners, resizeListeners, depthChart, echarts, container,
          rendered, invoked>>

\* the page of the order book: the click listeners on its container and the
\* resize listeners on the window it has added, whether it holds an ECharts
\* instance, whether window.echarts is there, whether the container holds the
\* built elements, whether the latest call ran _render, and how often the
\* latest click invoked options.clickHandler
dom == <<clickListeners, resizeListeners, depthChart, echarts, container,
         rendered, invoked>>

\* the trading view: the selected symbol, the symbol its orderBook was
\* delivered for, the requests of changeSymbol that wait for their response,
\* and the two order lists
view == <<selectedSymbol, orderBook, requests, activeOrders, orderHistory>>

\* what no handler of the order book or of the trade history touches: the
\* argument and the result of a call of _processDepthData on its own, and the
\* trading view
aside == <<depth, view>>

\* the TradeHistory component: its trades (their prices, newest first), its
\* lastPrice field, and the direction class of the price cell of the row
\* rendered for the newest trade
history == <<trades, lastPrice, priceCell>>

book == <<bids, asks, lastUpdateId, spreadValue, spreadPercent,
          totalBidVolume, totalAskVolume>>

(***************************************************************************)
(* Bounds of the model.                                                    *)
(***************************************************************************)
\* most raw entries one update carries, both sides together
MaxLen == 2
\* largest lastUpdateId a raw update carries
MaxId == 1
\* most calls made on the instance after its construction
MaxCalls == 3
\* order ids of the order messages the trading view receives
MaxOrders == 2
\* most requests of one kind for one symbol that wait for their response
MaxInFlight == 2

(***************************************************************************)
(* JavaScript values.                                                      *)
(***************************************************************************)
\* the number NaN, as parseFloat returns it for an unparsable value
NaN == 0 - 1000000

IsNaN(x) == x = NaN

JsSub(a, b) == IF IsNaN(a) \/ IsNaN(b) THEN NaN ELSE a - b

JsAdd(a, b) == IF IsNaN(a) \/ IsNaN(b) THEN NaN ELSE a + b

\* a > b on numbers: every comparison with NaN is false
JsGt(a, b) == ~IsNaN(a) /\ ~IsNaN(b) /\ a > b

Abs(x) == IF x < 0 THEN 0 - x ELSE x

RECURSIVE Gcd(_, _)
Gcd(a, b) == IF b = 0 THEN a ELSE Gcd(b, a % b)

\* the fraction n/d in lowest terms with d >= 0; d = 0 keeps only the sign of n
Frac(n, d) ==
    IF d = 0 THEN <<(IF n > 0 THEN 1 ELSE IF n < 0 THEN 0 - 1 ELSE 0), 0>>
    ELSE LET s == IF d < 0 THEN 0 - 1 ELSE 1
             g == Gcd(Abs(n), Abs(d))
         IN  <<(s * n) \div g, (s * d) \div g>>

FracNaN == <<0, 0>>

FracZero == <<0, 1>>

\* (a / b) * 100 on numbers
JsPercent(a, b) ==
    IF IsNaN(a) \/ IsNaN(b) THEN FracNaN ELSE Frac(100 * a, b)

\* raw values a feed puts into a level: a number, a numeric string, or
\* undefined for a missing one
Num(n) == [t |-> "number", v |-> n]

Str(n) == [t |-> "numeric string", v |-> n]

Undef == [t |-> "undefined", v |-> 0]

\* ToBoolean, as the || of the alias lookup applies it
Truthy(x) == \/ x.t = "number" /\ x.v # 0 /\ ~IsNaN(x.v)
             \/ x.t = "numeric string"
             \/ x.t = "string"

JsOr(x, y) == IF Truthy(x) THEN x ELSE y

ParseFloat(x) == IF x.t \in {"number", "numeric string"} THEN x.v ELSE NaN

(***************************************************************************)
(* Raw level entries.  k is what Array.isArray and typeof tell about the   *)
(* entry; v holds the elements of an array entry, or the fields price, p,  *)
(* quantity, q, amount, a of an object entry (Undef for a missing field).  *)
(***************************************************************************)
Pair(x, y) == [k |-> "array", v |-> <<x, y>>]

Obj(price, p, quantity, q, amount, a) ==
    [k |-> "object", v |-> <<price, p, quantity, q, amount, a>>]

NullEntry == [k |-> "null", v |-> <<>>]

\* undefined, a string or a number in place of a level
ScalarEntry == [k |-> "scalar", v |-> <<>>]

At(s, i) == IF i <= Len(s) THEN s[i] ELSE Undef

\* the entry makes the map callback throw: typeof null is 'object', and
\* reading item.price of null is a TypeError
EntryThrows(item) == item.k = "null"

\* the map callback of _processDepthData, for an entry that does not throw
NormalizeEntry(item) ==
    LET price == IF item.k = "array" THEN At(item.v, 1)
                 ELSE IF item.k = "object" THEN JsOr(item.v[1], item.v[2])
                 ELSE Undef
        quantity == IF item.k = "array" THEN At(item.v, 2)
                    ELSE IF item.k = "object"
                         THEN JsOr(JsOr(JsOr(item.v[3], item.v[4]), item.v[5]), item.v[6])
                    ELSE Undef
    IN  <<ParseFloat(price), ParseFloat(quantity)>>

\* the filter callback with >= in place of >
KeepLevelNonNegative(item) == ~IsNaN(item[2]) /\ item[2] >= 0

\* the filter callback
KeepLevel(item) == JsGt(item[2], 0)

\* the sort callback; Array.prototype.sort reads a NaN result as +0
Compare(a, b, isBids) ==
    LET d == IF isBids THEN JsSub(b[1], a[1]) ELSE JsSub(a[1], b[1])
    IN  IF IsNaN(d) THEN 0 ELSE d

\* data.map(item => ...), for entries that do not throw
MapEntries(s) == [i \in 1..Len(s) |-> NormalizeEntry(s[i])]

\* processed.filter(item => item[1] > 0)
RECURSIVE FilterLevels(_)
FilterLevels(s) ==
    IF s = <<>> THEN <<>>
    ELSE IF KeepLevel(Head(s)) THEN <<Head(s)>> \o FilterLevels(Tail(s))
    ELSE FilterLevels(Tail(s))

\* x put into the sorted sequence s behind every element that does not
\* compare greater than it
RECURSIVE Insert(_, _, _)
Insert(s, x, isBids) ==
    IF s = <<>> THEN <<x>>
    ELSE IF Compare(Head(s), x, isBids) <= 0
         THEN <<Head(s)>> \o Insert(Tail(s), x, isBids)
    ELSE <<x>> \o s

RECURSIVE StableSort(_, _)
StableSort(s, isBids) ==
    IF s = <<>> THEN <<>>
    ELSE Insert(StableSort(SubSeq(s, 1, Len(s) - 1), isBids), s[Len(s)], isBids)

\* the comparator is a consistent comparison function for the elements of s
\* (equality under it is transitive; a NaN price compares equal to every price)
ConsistentCompare(s, isBids) ==
    \A i, j, l \in 1..Len(s) :
        (Compare(s[i], s[j], isBids) = 0 /\ Compare(s[j], s[l], isBids) = 0)
            => Compare(s[i], s[l], isBids) = 0

Permutations(s) ==
    { [i \in 1..Len(s) |-> s[f[i]]] :
        f \in { g \in [1..Len(s) -> 1..Len(s)] :
                    \A i, j \in 1..Len(s) : i # j => g[i] # g[j] } }

\* what filtered.sort(comparator) may leave: the stable order, or, when the
\* comparator is not consistent, an implementation-defined order
SortOutcomes(s, isBids) ==
    IF ConsistentCompare(s, isBids) THEN {StableSort(s, isBids)}
    ELSE Permutations(s)

\* slice(0, end) with the end left out
Slice0Whole(s, end) == s

\* Array.prototype.slice(0, end)
Slice0(s, end) ==
    LET n == Len(s)
        k == IF end < 0 THEN (IF n + end < 0 THEN 0 ELSE n + end)
             ELSE (IF end > n THEN n ELSE end)
    IN  SubSeq(s, 1, k)

\* a raw side: absent (falsy), an array of entries, or another truthy value
Absent == [k |-> "absent", v |-> <<>>]

NotArray == [k |-> "other", v |-> <<>>]

ArrayOf(s) == [k |-> "array", v |-> s]

\* _processDepthData throws on this side
SideThrows(side) ==
    side.k = "array" /\ \E i \in 1..Len(side.v) : EntryThrows(side.v[i])

\* the ladders _processDepthData may return for a side that does not throw
ProcessDepthData(side, isBids, rows) ==
    IF side.k # "array" THEN {<<>>}
    ELSE LET processed == MapEntries(side.v)
             filtered == FilterLevels(processed)
         IN  { Slice0(sorted, rows) : sorted \in SortOutcomes(filtered, isBids) }

(***************************************************************************)
(* _calculateStats                                                         *)
(***************************************************************************)
RECURSIVE SumQuantity(_)
SumQuantity(s) ==
    IF s = <<>> THEN 0 ELSE JsAdd(SumQuantity(SubSeq(s, 1, Len(s) - 1)), s[Len(s)][2])

\* each level with the running total appended behind what it already holds
WithCumulative(s) ==
    [i \in 1..Len(s) |-> Append(s[i], SumQuantity(SubSeq(s, 1, i)))]

SpreadOf(b, a) ==
    IF Len(a) > 0 /\ Len(b) > 0 THEN JsSub(a[1][1], b[1][1]) ELSE 0

SpreadPercentOf(b, a) ==
    IF Len(a) > 0 /\ Len(b) > 0
    THEN JsPercent(JsSub(a[1][1], b[1][1]), a[1][1])
    ELSE FracZero

(***************************************************************************)
(* The raw updates the model feeds to update().                            *)
(***************************************************************************)
\* [2, 1]; ["0", "2"]; {price: 0, quantity: 1}, whose price 0 is falsy and
\* gives way to the missing p; [1, 0]; a scalar; null
RawEntries ==
    { Pair(Num(2), Num(1)),
      Pair(Str(0), Str(2)),
      Obj(Num(0), Undef, Num(1), Undef, Undef, Undef),
      Pair(Num(1), Num(0)),
      ScalarEntry,
      NullEntry }

RECURSIVE SeqsOfLen(_, _)
SeqsOfLen(S, n) ==
    IF n = 0 THEN {<<>>}
    ELSE { Append(s, x) : s \in SeqsOfLen(S, n - 1), x \in S }

RawSides ==
    {Absent, NotArray} \cup
    { ArrayOf(s) : s \in UNION { SeqsOfLen(RawEntries, n) : n \in 0..MaxLen } }

\* null stands for any falsy data argument; lastUpdateId 0 for a missing or
\* zero id
NullData == [nil |-> TRUE, lastUpdateId |-> 0, bids |-> Absent, asks |-> Absent]

RawUpdates ==
    { d \in [nil : {FALSE}, lastUpdateId : 0..MaxId, bids : RawSides, asks : RawSides] :
        Len(d.bids.v) + Len(d.asks.v) <= MaxLen }

\* options.maxRows as the constructor defaults it
DefaultMaxRows == 15

\* the maxRows values updateOptions is given
MaxRowsValues == {0 - 1, 1, DefaultMaxRows}

(***************************************************************************)
(* State machine.                                                          *)
(***************************************************************************)
\* what the latest call was: the handler, how it ended ("returned", or the side
\* whose processing threw), and the shape of its argument (the incoming id, what
\* each side was and how many entries it had)
Called(op, outcome, data) ==
    [op |-> op, outcome |-> outcome, nil |-> data.nil, id |-> data.lastUpdateId,
     bids |-> data.bids.k, nbids |-> Len(data.bids.v),
     asks |-> data.asks.k, nasks |-> Len(data.asks.v)]

(***************************************************************************)
(* The last-price element of the order book, and the trade history.        *)
(***************************************************************************)
Null == [t |-> "null", v |-> 0]

\* formatPrice: the text "0" for what is not a number, toFixed of a number
FormatPrice(price) ==
    IF price.t # "number" THEN [t |-> "0", v |-> 0]
    ELSE [t |-> "toFixed", v |-> price.v]

\* the element _buildDOM creates: the text "--" and no direction class
NewLastPriceElement == [textContent |-> [t |-> "--", v |-> 0], classList |-> {}]

\* options.priceChangeColors of both components, as the constructors default it
PriceChangeColors == TRUE

\* options.maxRows of the trade history, as its constructor defaults it
TradeMaxRows == 50

\* a trade object by its price and p fields
TradeOf(price, p) == [nil |-> FALSE, price |-> price, p |-> p]

NullTrade == [nil |-> TRUE, price |-> Undef, p |-> Undef]

GetTradePrice(trade) ==
    LET price == JsOr(trade.price, trade.p)
    IN  IF price.t = "number" THEN price.v ELSE ParseFloat(price)

\* the prices updateLastPrice is given, the change types, and the trades
\* addTrade is given: {price: 1}, {price: 2}, {p: "2"} and {price: 0}
LastPrices == {Num(1), Num(2), Str(2)}

PriceChangeTypes ==
    { [t |-> "null", v |-> ""],
      [t |-> "string", v |-> "up"], [t |-> "string", v |-> "down"] }

TradeInputs ==
    { TradeOf(Num(1), Undef), TradeOf(Num(2), Undef),
      TradeOf(Undef, Str(2)), TradeOf(Num(0), Undef), NullTrade }

(***************************************************************************)
(* A consumer that read the bids or the asks property of the order book    *)
(* and keeps the array it got: of is the property read, same tells whether *)
(* the book still stores that very array there, got is what the array held *)
(* when it was read and now is what it holds.                              *)
(***************************************************************************)
NoLadder == [of |-> "none", same |-> FALSE, got |-> <<>>, now |-> <<>>]

\* an assignment that writes the entries into the array the property holds
AssignInPlace(c, side, ladder) ==
    IF c.of = side /\ c.same THEN [c EXCEPT !.now = ladder] ELSE c

\* this.bids = ..., this.asks = ... with the array that map or slice has
\* newly created: the property lets go of the array it held, which stays as
\* it is
AssignNew(c, side, ladder) ==
    IF c.of = side THEN [c EXCEPT !.same = FALSE] ELSE c

\* no call of _processDepthData on its own
NoDepth == [data |-> Absent, isBids |-> TRUE, outcome |-> "none", ladder |-> <<>>]

(***************************************************************************)
(* The trading view (views/trading.js): the symbols it can select, the      *)
(* requests changeSymbol sends, and the order messages of the socket.       *)
(***************************************************************************)
Symbols == {"BTC/USDT", "ETH/USDT"}

NoSymbol == ""

RequestKinds == {"depth", "openOrders"}

NoRequests == [r \in RequestKinds \X Symbols |-> 0]

TerminalStatuses == {"FILLED", "CANCELED", "REJECTED", "EXPIRED"}

OrderStatuses == {"NEW", "PARTIALLY_FILLED"} \cup TerminalStatuses

OrderIds == 1..MaxOrders

OrderMessages == [orderId : OrderIds, status : OrderStatuses]

\* what /api/trading/openOrders may answer: open orders, each id once
OpenOrderLists ==
    { s \in UNION { [1..n -> [orderId : OrderIds, status : {"NEW"}]] : n \in 0..MaxOrders } :
        \A i, j \in 1..Len(s) : i # j => s[i].orderId # s[j].orderId }

\* data() of the view
ViewInit ==
    /\ selectedSymbol = NoSymbol
    /\ orderBook = [symbol |-> NoSymbol]
    /\ requests = NoRequests
    /\ activeOrders = <<>>
    /\ orderHistory = <<>>

\* _renderDepthChart(): with ECharts loaded, the instance is made if there is
\* none, and one more resize listener is added to the window
RenderDepthChart ==
    IF echarts
    THEN /\ depthChart' = TRUE
         /\ resizeListeners' = resizeListeners + 1
    ELSE UNCHANGED <<depthChart, resizeListeners>>

\* the constructor, given a clickHandler and no maxRows option
Constructed ==
    /\ bids = <<>>
    /\ asks = <<>>
    /\ lastUpdateId = 0
    /\ spreadValue = 0
    /\ spreadPercent = FracZero
    /\ totalBidVolume = 0
    /\ totalAskVolume = 0
    /\ maxRows = DefaultMaxRows
    /\ call = Called("new", "returned", NullData)
    /\ calls = 0
    /\ lastPriceElement = NewLastPriceElement
    /\ trades = <<>>
    /\ lastPrice = Null
    /\ priceCell = ""
    /\ consumer = NoLadder
    /\ depth = NoDepth
    /\ ViewInit
    /\ clickListeners = 1
    /\ resizeListeners = 0
    /\ depthChart = FALSE
    /\ container = "built"
    /\ rendered = TRUE
    /\ invoked = 0

\* the instance on a page that has not loaded ECharts
Init == Constructed /\ echarts = FALSE

\* the incoming id taken without comparing it with the stored one
NextUpdateIdLatest(data) ==
    IF data.lastUpdateId # 0 THEN data.lastUpdateId ELSE lastUpdateId

NextUpdateId(data) ==
    IF data.lastUpdateId # 0 /\ data.lastUpdateId > lastUpdateId
    THEN data.lastUpdateId ELSE lastUpdateId

\* update(data) behind its guard, to its return or to the exception that
\* leaves it
UpdateBody(data) ==
    /\ lastUpdateId' = NextUpdateId(data)
    /\ UNCHANGED maxRows
    /\ IF data.bids.k # "absent" /\ SideThrows(data.bids)
       THEN /\ call' = Called("update", "threw at bids", data)
            /\ rendered' = FALSE
            /\ UNCHANGED <<bids, asks, spreadValue, spreadPercent,
                           totalBidVolume, totalAskVolume, consumer,
                           depthChart, resizeListeners>>
       ELSE \E newBids \in (IF data.bids.k # "absent"
                            THEN ProcessDepthData(data.bids, TRUE, maxRows)
                            ELSE {bids}) :
            IF data.asks.k # "absent" /\ SideThrows(data.asks)
            THEN /\ call' = Called("update", "threw at asks", data)
                 /\ bids' = newBids
                 /\ consumer' = AssignNew(consumer, "bids", newBids)
                 /\ rendered' = FALSE
                 /\ UNCHANGED <<asks, spreadValue, spreadPercent,
                                totalBidVolume, totalAskVolume,
                                depthChart, resizeListeners>>
            ELSE \E newAsks \in (IF data.asks.k # "absent"
                                 THEN ProcessDepthData(data.asks, FALSE, maxRows)
                                 ELSE {asks}) :
                 /\ spreadValue' = SpreadOf(newBids, newAsks)
                 /\ spreadPercent' = SpreadPercentOf(newBids, newAsks)
                 /\ totalBidVolume' = SumQuantity(newBids)
                 /\ totalAskVolume' = SumQuantity(newAsks)
                 /\ bids' = WithCumulative(newBids)
                 /\ asks' = WithCumulative(newAsks)
                 /\ consumer' = AssignNew(AssignNew(consumer, "bids", bids'),
                                          "asks", asks')
                 /\ call' = Called("update", "returned", data)
                 /\ rendered' = TRUE
                 /\ RenderDepthChart

\* an update that returns at once on an id that is not newer than the stored
UpdateDroppingStale(data) ==
    /\ calls < MaxCalls
    /\ calls' = calls + 1
    /\ UNCHANGED <<lastPriceElement, history, aside,
                   clickListeners, echarts, container, invoked>>
    /\ IF data.nil \/ (data.lastUpdateId # 0 /\ data.lastUpdateId <= lastUpdateId)
       THEN /\ call' = Called("update", "returned", data)
            /\ rendered' = FALSE
            /\ UNCHANGED <<book, maxRows, consumer, depthChart, resizeListeners>>
       ELSE UpdateBody(data)

\* an update that takes a falsy data for an update without sides
UpdateRenderingAlways(data) ==
    /\ calls < MaxCalls
    /\ calls' = calls + 1
    /\ UNCHANGED <<lastPriceElement, history, aside,
                   clickListeners, echarts, container, invoked>>
    /\ UpdateBody(data)

\* update(data), for a falsy data and for every other
Update(data) ==
    /\ calls < MaxCalls
    /\ calls' = calls + 1
    /\ UNCHANGED <<lastPriceElement, history, aside,
                   clickListeners, echarts, container, invoked>>
    /\ IF data.nil
       THEN /\ call' = Called("update", "returned", data)
            /\ rendered' = FALSE
            /\ UNCHANGED <<book, maxRows, consumer, depthChart, resizeListeners>>
       ELSE UpdateBody(data)

\* an updateOptions that cuts the stored ladders to the new maxRows at once
UpdateOptionsTruncating(rows) ==
    /\ calls < MaxCalls
    /\ calls' = calls + 1
    /\ maxRows' = rows
    /\ lastPriceElement' = NewLastPriceElement
    /\ call' = Called("updateOptions", "returned", NullData)
    /\ bids' = Slice0(bids, rows)
    /\ asks' = Slice0(asks, rows)
    /\ clickListeners' = clickListeners + 1
    /\ container' = "built"
    /\ rendered' = TRUE
    /\ RenderDepthChart
    /\ UNCHANGED <<lastUpdateId, spreadValue, spreadPercent, totalBidVolume,
                   totalAskVolume, history, consumer, aside, echarts, invoked>>

\* updateOptions(options) with a maxRows option: the options are merged,
\* _buildDOM builds the component's elements anew and, through _attachEvents,
\* adds one more click listener to the container; _render and the chart follow
UpdateOptions(rows) ==
    /\ calls < MaxCalls
    /\ calls' = calls + 1
    /\ maxRows' = rows
    /\ lastPriceElement' = NewLastPriceElement
    /\ call' = Called("updateOptions", "returned", NullData)
    /\ clickListeners' = clickListeners + 1
    /\ container' = "built"
    /\ rendered' = TRUE
    /\ RenderDepthChart
    /\ UNCHANGED <<book, history, consumer, aside, echarts, invoked>>

\* updateLastPrice(price, priceChangeType) of the order book
UpdateLastPrice(price, priceChangeType) ==
    /\ calls < MaxCalls
    /\ calls' = calls + 1
    /\ lastPriceElement' =
           [textContent |-> FormatPrice(price),
            classList |-> (lastPriceElement.classList \ {"up", "down"}) \cup
                          (IF priceChangeType.t = "string" /\ PriceChangeColors
                           THEN {priceChangeType.v} ELSE {})]
    /\ call' = [op |-> "updateLastPrice", outcome |-> "returned",
                price |-> price, priceChangeType |-> priceChangeType]
    /\ rendered' = FALSE
    /\ UNCHANGED <<book, maxRows, history, consumer, aside, clickListeners,
                   resizeListeners, depthChart, echarts, container, invoked>>

\* the class _renderNewTrade gives the price cell of the new row
PriceChangeClass(price, last) ==
    IF last # Null /\ PriceChangeColors
    THEN IF JsGt(price, last.v) THEN "price-up"
         ELSE IF JsGt(last.v, price) THEN "price-down" ELSE ""
    ELSE ""

\* addTrade(trade) of the trade history, under autoUpdate on its first page
AddTrade(trade) ==
    /\ calls < MaxCalls
    /\ calls' = calls + 1
    /\ call' = [op |-> "addTrade", outcome |-> "returned", trade |-> trade]
    /\ UNCHANGED <<book, maxRows, lastPriceElement, consumer, aside, dom>>
    /\ IF trade.nil
       THEN UNCHANGED history
       ELSE LET price == GetTradePrice(trade)
                last == IF Len(trades) > 0 THEN Num(trades[1]) ELSE Null
                added == <<price>> \o trades
            IN  /\ lastPrice' = last
                /\ trades' = IF Len(added) > TradeMaxRows
                             THEN SubSeq(added, 1, Len(added) - 1) ELSE added
                /\ priceCell' = PriceChangeClass(price, last)

\* the consumer reads orderBook.bids or orderBook.asks, once, at any moment,
\* and keeps the array
GetLadder(side) ==
    /\ consumer = NoLadder
    /\ LET ladder == IF side = "bids" THEN bids ELSE asks
       IN  consumer' = [of |-> side, same |-> TRUE, got |-> ladder, now |-> ladder]
    /\ UNCHANGED <<book, maxRows, call, calls, lastPriceElement, history, aside, dom>>

Next ==
    \/ \E data \in RawUpdates \cup {NullData} : Update(data)
    \/ \E rows \in MaxRowsValues : UpdateOptions(rows)

Spec == Init /\ [][Next]_vars

(***************************************************************************)
(* A feed of few updates with ids that run ahead of and behind the stored  *)
(* one: per side nothing, one level, two levels out of order, and an array *)
(* whose third entry is null.                                              *)
(***************************************************************************)
MaxFeedId == 2

FeedSides ==
    { Absent,
      ArrayOf(<<Pair(Num(2), Num(1))>>),
      ArrayOf(<<Pair(Str(0), Str(2)), Pair(Num(2), Num(1))>>),
      ArrayOf(<<Pair(Num(2), Num(1)), Pair(Str(0), Str(2)), NullEntry>>) }

Feed ==
    [nil : {FALSE}, lastUpdateId : 0..MaxFeedId, bids : FeedSides, asks : FeedSides]

\* the order book under the feed, with a consumer of its ladders
FeedNext ==
    \/ \E data \in Feed \cup {NullData} : Update(data)
    \/ \E rows \in MaxRowsValues : UpdateOptions(rows)
    \/ \E side \in {"bids", "asks"} : GetLadder(side)

FeedSpec == Init /\ [][FeedNext]_vars

\* the order book and the trade history as trade prices arrive, between
\* updates of the bids and reconfigurations
TradeFeed == {NullData} \cup {d \in Feed : d.lastUpdateId = 0 /\ d.asks = Absent}

TradeNext ==
    \/ \E price \in LastPrices, type \in PriceChangeTypes : UpdateLastPrice(price, type)
    \/ \E trade \in TradeInputs : AddTrade(trade)
    \/ \E data \in TradeFeed : Update(data)
    \/ \E rows \in MaxRowsValues : UpdateOptions(rows)

TradeSpec == Init /\ [][TradeNext]_vars

(***************************************************************************)
(* _processDepthData on its own: a raw side, the flag isBids and a         *)
(* configured maxRows are drawn, and the one call builds the ladder.       *)
(***************************************************************************)
\* most entries of the raw side
MaxSide == 4

\* [1, 1] and [1, 2] of equal price; ["2", "1"]; {price: 0, quantity: 1} with
\* its falsy price; [3, 0]; null
BuilderEntries ==
    { Pair(Num(1), Num(1)),
      Pair(Num(1), Num(2)),
      Pair(Str(2), Str(1)),
      Obj(Num(0), Undef, Num(1), Undef, Undef, Undef),
      Pair(Num(3), Num(0)),
      NullEntry }

\* the values a level is given as, and every way of writing a level of price
\* x and quantity y: the pair, and the objects under each alias
LevelValues == {Num(0), Str(0), Num(2), Str(2)}

LevelForms(x, y) ==
    { Pair(x, y),
      Obj(x, Undef, y, Undef, Undef, Undef), Obj(x, Undef, Undef, y, Undef, Undef),
      Obj(x, Undef, Undef, Undef, y, Undef), Obj(x, Undef, Undef, Undef, Undef, y),
      Obj(Undef, x, y, Undef, Undef, Undef), Obj(Undef, x, Undef, y, Undef, Undef),
      Obj(Undef, x, Undef, Undef, y, Undef), Obj(Undef, x, Undef, Undef, Undef, y) }

AliasEntries == UNION { LevelForms(x, y) : x \in LevelValues, y \in LevelValues }

\* the raw sides: up to MaxSide of the builder entries, and one level in any
\* form, alone or before [1, 1]
BuilderSides ==
    { ArrayOf(s) : s \in UNION { SeqsOfLen(BuilderEntries, n) : n \in 0..MaxSide } }
    \cup { ArrayOf(<<e>>) : e \in AliasEntries }
    \cup { ArrayOf(<<e, Pair(Num(1), Num(1))>>) : e \in AliasEntries }

BuilderInit ==
    /\ bids = <<>>
    /\ asks = <<>>
    /\ lastUpdateId = 0
    /\ spreadValue = 0
    /\ spreadPercent = FracZero
    /\ totalBidVolume = 0
    /\ totalAskVolume = 0
    /\ maxRows \in MaxRowsValues
    /\ call = Called("new", "returned", NullData)
    /\ calls = 0
    /\ lastPriceElement = NewLastPriceElement
    /\ trades = <<>>
    /\ lastPrice = Null
    /\ priceCell = ""
    /\ consumer = NoLadder
    /\ depth \in [data : BuilderSides, isBids : BOOLEAN, outcome : {"none"},
                  ladder : {<<>>}]
    /\ ViewInit
    /\ clickListeners = 1
    /\ resizeListeners = 0
    /\ depthChart = FALSE
    /\ echarts = FALSE
    /\ container = "built"
    /\ rendered = TRUE
    /\ invoked = 0

\* _processDepthData(data, isBids)
Process ==
    /\ depth.outcome = "none"
    /\ IF SideThrows(depth.data)
       THEN depth' = [depth EXCEPT !.outcome = "threw"]
       ELSE \E ladder \in ProcessDepthData(depth.data, depth.isBids, maxRows) :
                depth' = [depth EXCEPT !.outcome = "returned", !.ladder = ladder]
    /\ UNCHANGED <<book, maxRows, call, calls, lastPriceElement, history, consumer,
                   view, dom>>

BuilderNext == Process

BuilderSpec == BuilderInit /\ [][BuilderNext]_vars

(***************************************************************************)
(* The trading view: symbol changes, the responses to their requests in     *)
(* any order, and the messages of the socket.  Of what changeSymbol loads,  *)
(* the order book and the active orders are kept; symbolInfo, ticker and    *)
(* recentTrades are read by nothing here.                                   *)
(***************************************************************************)
widget == <<book, maxRows, call, calls, lastPriceElement, history, consumer, depth,
            dom>>

Answered(kind, symbol) ==
    [requests EXCEPT ![<<kind, symbol>>] = @ - 1]

\* the symbol selected and changeSymbol() run: nothing without a symbol,
\* else loadOrderBook and loadActiveOrders send their requests for it
ChangeSymbol(symbol) ==
    /\ selectedSymbol' = symbol
    /\ IF symbol = NoSymbol
       THEN UNCHANGED requests
       ELSE /\ requests[<<"depth", symbol>>] < MaxInFlight
            /\ requests[<<"openOrders", symbol>>] < MaxInFlight
            /\ requests' = [r \in RequestKinds \X Symbols |->
                                IF r[2] = symbol THEN requests[r] + 1 ELSE requests[r]]
    /\ UNCHANGED <<orderBook, activeOrders, orderHistory, widget>>

\* loadOrderBook behind its await: the response to a request for symbol
LoadOrderBook(symbol, status) ==
    /\ requests[<<"depth", symbol>>] > 0
    /\ requests' = Answered("depth", symbol)
    /\ orderBook' = IF status = "success" THEN [symbol |-> symbol] ELSE orderBook
    /\ UNCHANGED <<selectedSymbol, activeOrders, orderHistory, widget>>

\* loadActiveOrders behind its await
LoadActiveOrders(symbol, status, data) ==
    /\ requests[<<"openOrders", symbol>>] > 0
    /\ requests' = Answered("openOrders", symbol)
    /\ activeOrders' = IF status = "success" THEN data ELSE activeOrders
    /\ UNCHANGED <<selectedSymbol, orderBook, orderHistory, widget>>

\* socket.on('depth')
SocketDepth(symbol) ==
    /\ orderBook' = IF symbol = selectedSymbol THEN [symbol |-> symbol] ELSE orderBook
    /\ UNCHANGED <<selectedSymbol, requests, activeOrders, orderHistory, widget>>

\* findIndex(order => order.orderId === orderId): 0 for -1
FindIndex(orders, orderId) ==
    IF \E i \in 1..Len(orders) : orders[i].orderId = orderId
    THEN CHOOSE i \in 1..Len(orders) :
             /\ orders[i].orderId = orderId
             /\ \A j \in 1..(i - 1) : orders[j].orderId # orderId
    ELSE 0

\* splice(index, 1)
Splice1(orders, index) ==
    SubSeq(orders, 1, index - 1) \o SubSeq(orders, index + 1, Len(orders))

\* socket.on('orderUpdate')
OrderUpdate(data) ==
    LET index == FindIndex(activeOrders, data.orderId)
    IN  /\ IF data.status \in TerminalStatuses
           THEN /\ activeOrders' = IF index > 0 THEN Splice1(activeOrders, index)
                                   ELSE activeOrders
                /\ orderHistory' = IF FindIndex(orderHistory, data.orderId) = 0
                                   THEN <<data>> \o orderHistory
                                   ELSE orderHistory
           ELSE /\ activeOrders' = IF index > 0
                                   THEN [activeOrders EXCEPT ![index] = data]
                                   ELSE <<data>> \o activeOrders
                /\ UNCHANGED orderHistory
        /\ UNCHANGED <<selectedSymbol, orderBook, requests, widget>>

ResponseStatuses == {"success", "error"}

ViewNext ==
    \/ \E symbol \in Symbols \cup {NoSymbol} : ChangeSymbol(symbol)
    \/ \E symbol \in Symbols, status \in ResponseStatuses : LoadOrderBook(symbol, status)
    \/ \E symbol \in Symbols, status \in ResponseStatuses, data \in OpenOrderLists :
           LoadActiveOrders(symbol, status, data)
    \/ \E symbol \in Symbols : SocketDepth(symbol)
    \/ \E data \in OrderMessages : OrderUpdate(data)

ViewSpec == Init /\ [][ViewNext]_vars

(***************************************************************************)
(* The order book on its page: updates, option changes, theme changes,     *)
(* clicks and destroy(), with ECharts loaded or not.  The theme itself is   *)
(* read by nothing here and is left out.                                    *)
(***************************************************************************)
WidgetInit == Constructed /\ echarts \in BOOLEAN

\* setTheme(theme): the chart is rendered again if there is an instance
SetTheme ==
    /\ calls < MaxCalls
    /\ calls' = calls + 1
    /\ call' = [op |-> "setTheme", outcome |-> "returned"]
    /\ rendered' = FALSE
    /\ IF depthChart THEN RenderDepthChart
       ELSE UNCHANGED <<depthChart, resizeListeners>>
    /\ UNCHANGED <<book, maxRows, lastPriceElement, history, consumer, aside,
                   clickListeners, echarts, container, invoked>>

\* destroy(): removeEventListener is given this._clickHandler, which nothing
\* ever sets, so no listener goes; the chart is disposed of and the container
\* emptied
Destroy ==
    /\ calls < MaxCalls
    /\ calls' = calls + 1
    /\ call' = [op |-> "destroy", outcome |-> "returned"]
    /\ depthChart' = FALSE
    /\ container' = "empty"
    /\ rendered' = FALSE
    /\ UNCHANGED <<book, maxRows, lastPriceElement, history, consumer, aside,
                   clickListeners, resizeListeners, echarts, invoked>>

\* where a click on the container can land: on an element of class price
\* (the header cells and the price cells of the rows) while the container
\* holds the built elements, or elsewhere
ClickTargets == {"price", "elsewhere"}

\* one click: every click listener on the container runs, and each invokes
\* options.clickHandler if the target is inside an element of class price
Click(target) ==
    /\ calls < MaxCalls
    /\ calls' = calls + 1
    /\ target = "price" => container = "built"
    /\ call' = [op |-> "click", outcome |-> "returned", target |-> target]
    /\ invoked' = IF target = "price" THEN clickListeners ELSE 0
    /\ rendered' = FALSE
    /\ UNCHANGED <<book, maxRows, lastPriceElement, history, consumer, aside,
                   clickListeners, resizeListeners, depthChart, echarts, container>>

\* the updates the page is given: null, nothing but an id, one side, both
WidgetFeed ==
    { NullData,
      [nil |-> FALSE, lastUpdateId |-> 1, bids |-> Absent, asks |-> Absent],
      [nil |-> FALSE, lastUpdateId |-> 0,
       bids |-> ArrayOf(<<Pair(Num(2), Num(1))>>), asks |-> Absent],
      [nil |-> FALSE, lastUpdateId |-> 2,
       bids |-> ArrayOf(<<Pair(Num(2), Num(1))>>),
       asks |-> ArrayOf(<<Pair(Num(3), Num(1))>>)] }

WidgetNext ==
    \/ \E data \in WidgetFeed : Update(data)
    \/ \E rows \in MaxRowsValues : UpdateOptions(rows)
    \/ SetTheme
    \/ Destroy
    \/ \E target \in ClickTargets : Click(target)

WidgetSpec == WidgetInit /\ [][WidgetNext]_vars

(***************************************************************************)
(* Properties.                                                             *)
(***************************************************************************)
Max(a, b) == IF a >= b THEN a ELSE b

\* a >= b and a <= b on numbers: every comparison with NaN is false
JsGe(a, b) == ~IsNaN(a) /\ ~IsNaN(b) /\ a >= b

JsLe(a, b) == ~IsNaN(a) /\ ~IsNaN(b) /\ a <= b

\* the step is a call of update
UpdateStep == calls' = calls + 1 /\ call'.op = "update"

\* the ladder carries its running total as third component
CumulativeOk(s) ==
    \A i \in 1..Len(s) :
        Len(s[i]) >= 3 /\ s[i][3] = SumQuantity(SubSeq(s, 1, i))

\* C1: the stored ladders are ordered, bids by non-increasing and asks by
\* non-decreasing price
C1_SortInvariant ==
    /\ \A i \in 1..(Len(bids) - 1) : JsGe(bids[i][1], bids[i + 1][1])
    /\ \A i \in 1..(Len(asks) - 1) : JsLe(asks[i][1], asks[i + 1][1])

\* C2: an update that omits a side leaves the stored ladder of that side
\* exactly as it was
C2_OmittedSideRetained ==
    [][UpdateStep => /\ call'.bids = "absent" => bids' = bids
                     /\ call'.asks = "absent" => asks' = asks]_vars

\* the stored state is a complete snapshot: ladders with their cumulative and
\* the statistics computed from them
CompleteSnapshot ==
    /\ CumulativeOk(bids) /\ CumulativeOk(asks)
    /\ spreadValue = SpreadOf(bids, asks)
    /\ spreadPercent = SpreadPercentOf(bids, asks)
    /\ totalBidVolume = SumQuantity(bids)
    /\ totalAskVolume = SumQuantity(asks)

\* C3: every call of update leaves either the state it found or a complete new
\* snapshot with lastUpdateId the larger of the stored and the incoming id
C3_UpdateAtomic ==
    [][UpdateStep => \/ UNCHANGED book
                     \/ /\ CompleteSnapshot'
                        /\ lastUpdateId' = Max(lastUpdateId, call'.id)]_vars

\* C4: update never throws on a non-null update whose sides are arrays of
\* arbitrary entries
C4_UpdateNeverThrows == call.outcome = "returned"

\* C5: an update carrying neither a bids array nor an asks array changes
\* nothing of the stored book, lastUpdateId included
C5_SidelessUpdateIgnored ==
    [][(UpdateStep /\ call'.bids # "array" /\ call'.asks # "array")
            => UNCHANGED book]_vars

\* C6 as claimed: under a positive maxRows, each stored ladder has at most
\* the currently configured maxRows levels in every reachable state
C6_TruncationAlways ==
    maxRows > 0 => Len(bids) <= maxRows /\ Len(asks) <= maxRows

\* the most levels slice(0, rows) leaves of n entries
SliceBound(n, rows) ==
    IF rows >= 0 THEN rows ELSE IF n + rows < 0 THEN 0 ELSE n + rows

\* C6: right after an update call, each side the call carried and processed
\* has at most maxRows levels (for a negative maxRows: at most the number of
\* raw entries less |maxRows|)
C6_TruncationAtUpdate ==
    call.op = "update" =>
        /\ (call.bids # "absent" /\ call.outcome # "threw at bids")
                => Len(bids) <= SliceBound(call.nbids, maxRows)
        /\ (call.asks # "absent" /\ call.outcome = "returned")
                => Len(asks) <= SliceBound(call.nasks, maxRows)

\* reached: an update with two raw bids under maxRows = 1 left one level
C6_Witness ==
    /\ call.op = "update" /\ call.outcome = "returned"
    /\ call.bids = "array" /\ call.nbids = 2
    /\ maxRows = 1 /\ Len(bids) = 1

\* C7: each ladder's cumulative is non-decreasing, its last value is the sum
\* of the ladder's quantities, and that sum is the stored total volume
CumulativeMonotone(s, total) ==
    /\ \A i \in 1..Len(s) : Len(s[i]) >= 3
    /\ \A i \in 1..(Len(s) - 1) : JsLe(s[i][3], s[i + 1][3])
    /\ IF Len(s) = 0 THEN total = 0
       ELSE s[Len(s)][3] = SumQuantity(s) /\ total = SumQuantity(s)

C7_CumulativeInvariant ==
    /\ CumulativeMonotone(bids, totalBidVolume)
    /\ CumulativeMonotone(asks, totalAskVolume)

\* C8: spread is best ask price minus best bid price when both ladders are
\* non-empty, and 0 otherwise
C8_SpreadInvariant ==
    spreadValue = (IF Len(asks) > 0 /\ Len(bids) > 0
                   THEN JsSub(asks[1][1], bids[1][1]) ELSE 0)

\* C9: with both ladders non-empty, spreadPercent is 0 when the best ask
\* price is 0, and spread / best ask price * 100 otherwise
C9_SpreadPercentInvariant ==
    (Len(asks) > 0 /\ Len(bids) > 0) =>
        spreadPercent = (IF asks[1][1] = 0 THEN FracZero
                         ELSE JsPercent(spreadValue, asks[1][1]))

\* C10: every level of a stored ladder has a quantity greater than 0
C10_PositiveQuantity ==
    /\ \A i \in 1..Len(bids) : JsGt(bids[i][2], 0)
    /\ \A i \in 1..Len(asks) : JsGt(asks[i][2], 0)

\* reached: an update under the default maxRows whose raw bids held a level
\* the ladder does not hold, beside one it does
C10_Witness ==
    /\ call.op = "update" /\ call.outcome = "returned"
    /\ call.bids = "array" /\ maxRows = DefaultMaxRows
    /\ Len(bids) > 0 /\ Len(bids) < call.nbids

\* C11: every level of a stored ladder has a price that is a number and not
\* NaN, and a finite quantity
C11_NumericLevels ==
    /\ \A i \in 1..Len(bids) : ~IsNaN(bids[i][1]) /\ ~IsNaN(bids[i][2])
    /\ \A i \in 1..Len(asks) : ~IsNaN(asks[i][1]) /\ ~IsNaN(asks[i][2])

\* C12: lastUpdateId never decreases, and after each call of update on a
\* non-null argument it is the larger of the stored and the incoming id
C12_LastUpdateIdMonotonic ==
    [][/\ lastUpdateId' >= lastUpdateId
       /\ UpdateStep => lastUpdateId' = Max(lastUpdateId, call'.id)]_vars

\* reached: an update with a positive id below the stored one has been applied
\* and the stored id stayed
C12_Witness ==
    /\ call.op = "update" /\ call.outcome = "returned"
    /\ call.id > 0 /\ call.id < lastUpdateId

\* the step is a call of updateOptions, of updateLastPrice with a number, of
\* addTrade with a trade whose price field is a positive number
UpdateOptionsStep == calls' = calls + 1 /\ call'.op = "updateOptions"

LastPriceStep ==
    calls' = calls + 1 /\ call'.op = "updateLastPrice" /\ call'.price.t = "number"

AddTradeStep ==
    /\ calls' = calls + 1 /\ call'.op = "addTrade"
    /\ ~call'.trade.nil
    /\ call'.trade.price.t = "number" /\ call'.trade.price.v > 0

\* the direction an element's classes show
Direction(classList) ==
    IF "up" \in classList THEN "up"
    ELSE IF "down" \in classList THEN "down" ELSE "none"

\* C13: recording a trade price stores it as the last price and yields 'up'
\* exactly when it is above the price recorded before, 'down' exactly when it
\* is below, and no direction when no price was recorded before; for
\* updateLastPrice of the order book and for addTrade of the trade history
C13_DirectionByComparison ==
    [][/\ LastPriceStep =>
            LET prev == lastPriceElement.textContent
                price == call'.price.v
                dir == Direction(lastPriceElement'.classList)
            IN  /\ lastPriceElement'.textContent = [t |-> "toFixed", v |-> price]
                /\ prev.t = "--" => dir = "none"
                /\ prev.t = "toFixed" =>
                       /\ dir = "up" <=> price > prev.v
                       /\ dir = "down" <=> price < prev.v
       /\ AddTradeStep =>
            LET price == call'.trade.price.v
            IN  /\ Len(trades') > 0 /\ trades'[1] = price
                /\ Len(trades) = 0 => priceCell' = ""
                /\ Len(trades) > 0 =>
                       /\ priceCell' = "price-up" <=> JsGt(price, trades[1])
                       /\ priceCell' = "price-down" <=> JsGt(trades[1], price)]_vars

\* C14: recording a price equal to the one recorded before leaves the
\* direction as the previous call left it
C14_EqualPriceKeepsDirection ==
    [][/\ (LastPriceStep /\ lastPriceElement.textContent = FormatPrice(call'.price))
            => Direction(lastPriceElement'.classList)
                   = Direction(lastPriceElement.classList)
       /\ (AddTradeStep /\ Len(trades) > 0 /\ trades[1] = call'.trade.price.v)
            => priceCell' = priceCell]_vars

\* C15: update and updateOptions leave the last price and its direction as
\* they are, and updateLastPrice leaves the ladders, the statistics and
\* lastUpdateId as they are
C15_LastPriceFrame ==
    [][/\ (UpdateStep \/ UpdateOptionsStep) => UNCHANGED lastPriceElement
       /\ (calls' = calls + 1 /\ call'.op = "updateLastPrice") => UNCHANGED book]_vars

C17_UpdateOptionsFrame ==
    [][/\ UpdateOptionsStep => UNCHANGED book
       /\ (UpdateStep /\ call'.outcome = "returned" /\ call'.bids = "array")
            => Len(bids') <= SliceBound(call'.nbids, maxRows)
       /\ (UpdateStep /\ call'.outcome = "returned" /\ call'.asks = "array")
            => Len(asks') <= SliceBound(call'.nasks, maxRows)]_vars

\* reached: updateOptions has set maxRows to 1 over a stored ladder of two
\* levels
C17_Witness ==
    call.op = "updateOptions" /\ maxRows = 1 /\ Len(bids) = 2

\* the side of the latest update held a level that the ladder builder keeps:
\* the feed's arrays of one and of two entries hold only such levels
CarriedValidLevel(kind, n) == kind = "array" /\ n \in {1, 2}

\* C18: under a configured maxRows of 0 or less, an update that carries a
\* side with at least one valid level leaves exactly one level on that side
C18_MaxRowsCoercedToOne ==
    (call.op = "update" /\ call.outcome = "returned" /\ maxRows <= 0) =>
        /\ CarriedValidLevel(call.bids, call.nbids) => Len(bids) = 1
        /\ CarriedValidLevel(call.asks, call.nasks) => Len(asks) = 1

\* the step is an update given the argument that the call before it was
\* given, both having returned: the feed's updates differ in their ids or in
\* what their sides are and how many entries they have, so an equal record of
\* the call means an equal argument
SameUpdateAgain ==
    /\ UpdateStep /\ call.op = "update" /\ call' = call
    /\ call.outcome = "returned"
    /\ call.bids = "array" \/ call.asks = "array"

\* C19: applying the update that has just been applied once more leaves
\* ladders, spread, spreadPercent and total volumes equal to what the first
\* application left
C19_ReapplyIdempotent ==
    [][SameUpdateAgain =>
           /\ bids' = bids /\ asks' = asks
           /\ spreadValue' = spreadValue /\ spreadPercent' = spreadPercent
           /\ totalBidVolume' = totalBidVolume
           /\ totalAskVolume' = totalAskVolume]_vars

\* what a new order book shows: no levels, and 0 for spread, spreadPercent,
\* the total volumes and lastUpdateId
Uninitialized ==
    /\ bids = <<>> /\ asks = <<>>
    /\ spreadValue = 0 /\ spreadPercent = FracZero
    /\ totalBidVolume = 0 /\ totalAskVolume = 0
    /\ lastUpdateId = 0

\* C20: before any call the book is in the empty state with all-zero
\* statistics, and only an update that completes takes it out of that state
C20_UninitializedUntilUpdate ==
    /\ [](calls = 0 => Uninitialized)
    /\ [][(Uninitialized /\ ~Uninitialized')
              => (UpdateStep /\ call'.outcome = "returned")]_vars

\* a level the ladder is to hold: its price is a number, its quantity above 0
ValidLevel(item) == ~IsNaN(item[1]) /\ JsGt(item[2], 0)

RECURSIVE DropInvalid(_)
DropInvalid(s) ==
    IF s = <<>> THEN <<>>
    ELSE IF ValidLevel(Head(s)) THEN <<Head(s)>> \o DropInvalid(Tail(s))
    ELSE DropInvalid(Tail(s))

\* the first rows elements of s
FirstRows(s, rows) == SubSeq(s, 1, IF rows < Len(s) THEN rows ELSE Len(s))

\* normalise every entry, drop the invalid levels, sort by price, keep the
\* first rows
ReferencePipeline(data, isBids, rows) ==
    FirstRows(StableSort(DropInvalid(MapEntries(data)), isBids), rows)

\* C21: under a positive maxRows, the ladder built from a raw side is the
\* reference pipeline's: the entries normalised, the invalid dropped, the rest
\* sorted by price and the first maxRows kept
C21_ReferencePipeline ==
    (depth.outcome = "returned" /\ maxRows > 0) =>
        depth.ladder = ReferencePipeline(depth.data.v, depth.isBids, maxRows)

\* the pair [price, quantity] of the values an object entry carries under its
\* aliases; any other entry as it is
FirstGiven(x, y) == IF x # Undef THEN x ELSE y

PositionalOf(item) ==
    IF item.k = "object"
    THEN Pair(FirstGiven(item.v[1], item.v[2]),
              FirstGiven(FirstGiven(FirstGiven(item.v[3], item.v[4]), item.v[5]),
                         item.v[6]))
    ELSE item

PositionalSide(side) == ArrayOf([i \in 1..Len(side.v) |-> PositionalOf(side.v[i])])

\* C22: an entry written as an object under any alias normalises to the level
\* of the pair [price, quantity] of the same values, and the ladder built from
\* the side is the one built from the pairs
C22_AliasEquivalence ==
    depth.outcome = "returned" =>
        /\ \A i \in 1..Len(depth.data.v) :
               NormalizeEntry(depth.data.v[i])
                   = NormalizeEntry(PositionalOf(depth.data.v[i]))
        /\ depth.ladder
               \in ProcessDepthData(PositionalSide(depth.data), depth.isBids, maxRows)

\* the update of the feed that the record of a call stands for
FeedDataOf(c) == CHOOSE d \in Feed : Called("update", c.outcome, d) = c

\* the ladders an update leaves of a raw side
LaddersOf(side, isBids, rows) ==
    { WithCumulative(ladder) : ladder \in ProcessDepthData(side, isBids, rows) }

\* C23: an update that carries a side and an id not above the stored one is
\* processed all the same: the sides it carries replace the stored ladders,
\* the statistics are those of the new ladders, and lastUpdateId stays
C23_StaleUpdateProcessed ==
    [][(/\ UpdateStep /\ call'.outcome = "returned"
        /\ call'.id <= lastUpdateId
        /\ call'.bids = "array" \/ call'.asks = "array") =>
           LET data == FeedDataOf(call')
           IN  /\ lastUpdateId' = lastUpdateId
               /\ data.bids.k = "array" => bids' \in LaddersOf(data.bids, TRUE, maxRows)
               /\ data.asks.k = "array" => asks' \in LaddersOf(data.asks, FALSE, maxRows)
               /\ spreadValue' = SpreadOf(bids', asks')
               /\ spreadPercent' = SpreadPercentOf(bids', asks')
               /\ totalBidVolume' = SumQuantity(bids')
               /\ totalAskVolume' = SumQuantity(asks')]_vars

\* reached: an update with a positive id below the stored one has put its two
\* bids in place of the stored ladder
C23_Witness ==
    /\ call.op = "update" /\ call.outcome = "returned"
    /\ call.id > 0 /\ call.id < lastUpdateId
    /\ call.bids = "array" /\ call.nbids = 2 /\ Len(bids) = 2

\* the levels of s with the price p, in the order of s
RECURSIVE AtPrice(_, _)
AtPrice(s, p) ==
    IF s = <<>> THEN <<>>
    ELSE IF s[1][1] = p THEN <<s[1]>> \o AtPrice(Tail(s), p)
    ELSE AtPrice(Tail(s), p)

IsPrefix(s, t) == Len(s) <= Len(t) /\ s = SubSeq(t, 1, Len(s))

C25_ThreeComponents ==
    /\ \A i \in 1..Len(bids) : Len(bids[i]) = 3
    /\ \A i \in 1..Len(asks) : Len(asks[i]) = 3

\* C26: with no order book request in flight, the order book the view holds
\* was delivered for the symbol that is selected
C26_BookOfSelectedSymbol ==
    (/\ \A symbol \in Symbols : requests[<<"depth", symbol>>] = 0
     /\ selectedSymbol # NoSymbol
     /\ orderBook.symbol # NoSymbol) => orderBook.symbol = selectedSymbol

OrderIdsOf(orders) == { orders[i].orderId : i \in 1..Len(orders) }

\* C27: the orderUpdate handler never brings an orderId into both lists: an
\* orderId of the history is in activeOrders after a message only if it was
\* in both before
C27_TerminalOrdersStayOut ==
    [][(\E data \in OrderMessages : OrderUpdate(data)) =>
           \A orderId \in OrderIdsOf(orderHistory') \cap OrderIdsOf(activeOrders') :
               orderId \in OrderIdsOf(orderHistory) \cap OrderIdsOf(activeOrders)]_vars
\* C28: the order book has at most one resize listener on the window
C28_OneResizeListener == resizeListeners <= 1

ClickStep == calls' = calls + 1 /\ call'.op = "click"

\* C29: a click on a price cell invokes options.clickHandler exactly once,
\* and a click on the container that destroy() has emptied does not invoke it
C29_ClickHandlerOnce ==
    [][ClickStep => /\ call'.target = "price" => invoked' = 1
                    /\ container = "empty" => invoked' = 0]_vars

\* C30: update with a falsy data changes no ladder, no statistic and not
\* lastUpdateId, renders nothing and leaves the page as it is
C30_FalsyUpdateIgnored ==
    [][(UpdateStep /\ call'.nil) =>
           /\ UNCHANGED <<book, maxRows, lastPriceElement, clickListeners,
                          resizeListeners, depthChart, container>>
           /\ ~rendered']_vars

\* reached: update(null) on an order book with a bid, an ask and a chart
C30_Witness ==
    /\ call.op = "update" /\ call.nil
    /\ Len(bids) > 0 /\ Len(asks) > 0 /\ depthChart
====
